---- MODULE Spec2Model ----
(***************************************************************************)
(* A model of src/cli/index.js: the recursive type serializer              *)
(* (serializeType) and the extraction run around it (generateActionsJson). *)
(*                                                                         *)
(* The host type system (the TypeScript checker) is an external            *)
(* collaborator; a type handle is modelled by the attributes the code      *)
(* reads from it (id, symbol, flags, isLiteral(), isUnion(), types,        *)
(* getProperties(), ...).  serializeType is modelled as an explicit call   *)
(* stack: one frame per active call, one action per rule of the function.  *)
(***************************************************************************)
EXTENDS Integers, Sequences, FiniteSets, TLC

\* Model bound: the deepest call stack explored (the code has no such limit).
MaxDepth == 6
\* Model bound: how many times the tool is run on the same project.
MaxRuns == 2

(***************************************************************************)
(* Schema values: the JSON values serializeType returns.  Every value is   *)
(* a record of the same shape so that any two can be compared.             *)
(***************************************************************************)
\* a JSON string: a type tag, a string literal's value or a fallback text
Str(s) == [kind |-> "string", s |-> s, n |-> 0, b |-> FALSE, items |-> <<>>, fields |-> <<>>]
\* a JSON number
Num(n) == [kind |-> "number", s |-> "", n |-> n, b |-> FALSE, items |-> <<>>, fields |-> <<>>]
\* a JSON boolean
Bool(b) == [kind |-> "boolean", s |-> "", n |-> 0, b |-> b, items |-> <<>>, fields |-> <<>>]
\* a JSON array of strings (type.types.map(t => t.value))
List(items) == [kind |-> "list", s |-> "", n |-> 0, b |-> FALSE, items |-> items, fields |-> <<>>]
\* a JSON object; fields in insertion order
Obj(fields) == [kind |-> "object", s |-> "", n |-> 0, b |-> FALSE, items |-> <<>>, fields |-> fields]
\* no value yet (a JavaScript variable not assigned)
NoValue == [kind |-> "none", s |-> "", n |-> 0, b |-> FALSE, items |-> <<>>, fields |-> <<>>]

\* { type: 'array', items: v }
ArrayOf(v) == Obj(<<[name |-> "type", val |-> Str("array")], [name |-> "items", val |-> v]>>)

HasKey(fields, name) == \E i \in 1..Len(fields) : fields[i].name = name

KeyIndex(fields, name) == CHOOSE i \in 1..Len(fields) : fields[i].name = name

\* obj[name] of a JavaScript object with the key present
Lookup(fields, name) == fields[KeyIndex(fields, name)].val

\* obj[name] = v: an existing key keeps its place, a new key goes last
SetKey(fields, name, v) ==
  IF HasKey(fields, name)
  THEN [fields EXCEPT ![KeyIndex(fields, name)] = [name |-> name, val |-> v]]
  ELSE Append(fields, [name |-> name, val |-> v])

(***************************************************************************)
(* Type handles of the host type system.                                   *)
(***************************************************************************)
\* the absent handle (undefined / null passed as `type`)
NoType == "<no type>"

\* a property symbol: getName(), valueDeclaration, whether its type has call
\* signatures, whether resolving its type throws, and the type it resolves to
Prop(name, type) ==
  [name |-> name, valueDeclaration |-> TRUE, callSignatures |-> FALSE,
   throws |-> FALSE, type |-> type]

Method(name) ==
  [name |-> name, valueDeclaration |-> TRUE, callSignatures |-> TRUE,
   throws |-> FALSE, type |-> NoType]

Throwing(name, type) ==
  [name |-> name, valueDeclaration |-> TRUE, callSignatures |-> FALSE,
   throws |-> TRUE, type |-> type]

\* a handle with nothing but an id and a rendering
Handle(id, text) ==
  [id |-> id, symbolName |-> "", symbolId |-> 0, flags |-> {},
   isLiteral |-> FALSE, isStringLiteral |-> FALSE, isNumberLiteral |-> FALSE,
   value |-> NoValue, intrinsicName |-> "",
   isUnion |-> FALSE, types |-> <<>>,
   isArrayType |-> FALSE, typeArguments |-> <<>>, argumentsThrow |-> FALSE,
   hasGetProperties |-> TRUE, properties |-> <<>>, text |-> text]

Intrinsic(id, flag, text) == [Handle(id, text) EXCEPT !.flags = {flag}]

StringLiteral(id, s) ==
  [Handle(id, s) EXCEPT !.flags = {"StringLiteral"}, !.isLiteral = TRUE,
                        !.isStringLiteral = TRUE, !.value = Str(s)]

NumberLiteral(id, n, text) ==
  [Handle(id, text) EXCEPT !.flags = {"NumberLiteral"}, !.isLiteral = TRUE,
                           !.isNumberLiteral = TRUE, !.value = Num(n)]

\* true / false.  literal: what the host's isLiteral() answers for it; the
\* TypeScript checker answers FALSE, and getProperties() gives the members of
\* the apparent type Boolean (valueOf)
BooleanLiteral(id, name, literal) ==
  [Handle(id, name) EXCEPT !.flags = {"BooleanLiteral"}, !.intrinsicName = name,
                           !.isLiteral = literal,
                           !.properties = <<Method("valueOf")>>]

\* an interface or a type literal: symbol.name is the interface's name, or
\* "__type" for a type literal
Object(id, symbolName, properties) ==
  [Handle(id, symbolName) EXCEPT !.flags = {"Object"}, !.symbolName = symbolName,
                                 !.properties = properties]

Union(id, types, text) ==
  [Handle(id, text) EXCEPT !.flags = {"Union"}, !.isUnion = TRUE, !.types = types]

Array(id, element, text) ==
  [Handle(id, text) EXCEPT !.flags = {"Object"}, !.symbolName = "Array",
                           !.isArrayType = TRUE, !.typeArguments = <<element>>,
                           !.properties = <<Prop("length", "number")>>]

\* The type graph the checks run over.  Ids are the checker's type ids; id 0
\* is a handle that exposes no type id.
TypeGraph ==
     ("string"    :> Intrinsic(1, "String", "string"))
  @@ ("number"    :> Intrinsic(2, "Number", "number"))
  @@ ("boolean"   :> [Union(3, <<"false", "true">>, "boolean") EXCEPT !.flags = {"Boolean", "Union"}])
  @@ ("null"      :> Intrinsic(4, "Null", "null"))
  @@ ("undefined" :> Intrinsic(5, "Undefined", "undefined"))
  @@ ("any"       :> Intrinsic(6, "Any", "any"))
  @@ ("unknown"   :> Intrinsic(7, "Unknown", "unknown"))
  @@ ("never"     :> Intrinsic(8, "Never", "never"))
  @@ ("'a'"       :> StringLiteral(9, "a"))
  @@ ("'b'"       :> StringLiteral(10, "b"))
  @@ ("42"        :> NumberLiteral(11, 42, "42"))
  @@ ("true"      :> BooleanLiteral(12, "true", FALSE))
  @@ ("false"     :> BooleanLiteral(13, "false", FALSE))
  @@ ("true*"     :> BooleanLiteral(14, "true", TRUE))
  @@ ("false*"    :> BooleanLiteral(15, "false", TRUE))
  @@ ("string[]"  :> Array(16, "string", "string[]"))
  \* an array whose type arguments cannot be read, and one that has none
  @@ ("bad[]"     :> [Array(17, "string", "bad[]") EXCEPT !.argumentsThrow = TRUE])
  @@ ("[]"        :> [Array(18, "string", "[]") EXCEPT !.typeArguments = <<>>])
  \* interface Node { next: Node }
  @@ ("Node"      :> Object(20, "Node", <<Prop("next", "Node")>>))
  \* interface A { b: B }   interface B { a: A }
  @@ ("A"         :> Object(21, "A", <<Prop("b", "B")>>))
  @@ ("B"         :> Object(22, "B", <<Prop("a", "A")>>))
  \* interface X { y: Y }   interface Y { z: Z }   interface Z { x: X }
  @@ ("X"         :> Object(34, "X", <<Prop("y", "Y")>>))
  @@ ("Y"         :> Object(35, "Y", <<Prop("z", "Z")>>))
  @@ ("Z"         :> Object(36, "Z", <<Prop("x", "X")>>))
  \* interface Empty {}
  @@ ("Empty"     :> Object(23, "Empty", <<>>))
  \* interface Item { id: number; tags: string[] }
  @@ ("Item"      :> Object(24, "Item", <<Prop("id", "number"), Prop("tags", "string[]")>>))
  \* interface Diamond { a: Item; b: Item }
  @@ ("Diamond"   :> Object(25, "Diamond", <<Prop("a", "Item"), Prop("b", "Item")>>))
  \* interface DiamondE { a: Empty; b: Empty }
  @@ ("DiamondE"  :> Object(26, "DiamondE", <<Prop("a", "Empty"), Prop("b", "Empty")>>))
  \* interface Holder { item: Item }
  @@ ("Holder"    :> Object(27, "Holder", <<Prop("item", "Item")>>))
  \* interface Tree { child?: Tree }
  @@ ("Tree"      :> Object(28, "Tree", <<Prop("child", "Tree?")>>))
  @@ ("Tree?"     :> Union(29, <<"undefined", "Tree">>, "Tree | undefined"))
  \* { x: number }
  @@ ("Anon"      :> Object(30, "__type", <<Prop("x", "number")>>))
  \* interface Flaky { bad: ...; ok: string; run(): void; __brand: string },
  \* the type of `bad` failing to resolve; FlakyRef is Flaky without the failure
  @@ ("Flaky"     :> Object(31, "Flaky", <<Throwing("bad", "number"), Prop("ok", "string"),
                                          Method("run"), Prop("__brand", "string")>>))
  @@ ("FlakyRef"  :> Object(32, "FlakyRef", <<Prop("bad", "number"), Prop("ok", "string"),
                                             Method("run"), Prop("__brand", "string")>>))
  \* DiamondE with the type of `a` failing to resolve
  @@ ("FlakyE"    :> Object(33, "FlakyE", <<Throwing("a", "Empty"), Prop("b", "Empty")>>))
  \* unions
  @@ ("'a'|'b'"   :> Union(40, <<"'a'", "'b'">>, "'a' | 'b'"))
  @@ ("string?"   :> Union(41, <<"undefined", "string">>, "string | undefined"))
  @@ ("null?"     :> Union(42, <<"undefined", "null">>, "null | undefined"))
  @@ ("'a'?"      :> Union(43, <<"undefined", "'a'">>, "'a' | undefined"))
  @@ ("42?"       :> Union(44, <<"undefined", "42">>, "42 | undefined"))
  @@ ("true?"     :> Union(45, <<"undefined", "true">>, "true | undefined"))
  @@ ("Item?"     :> Union(46, <<"undefined", "Item">>, "Item | undefined"))
  @@ ("string[]?" :> Union(47, <<"undefined", "string[]">>, "string[] | undefined"))
  @@ ("Anon?"     :> Union(48, <<"undefined", "Anon">>, "{ x: number } | undefined"))
  @@ ("Outer?"    :> Union(49, <<"undefined", "Outer">>, "{ inner: ... } | undefined"))
  \* handles that expose no type id
  \* a cell whose symbol has an id: { self: Cell }
  @@ ("Cell"      :> [Object(0, "Cell", <<Prop("self", "Cell")>>) EXCEPT !.symbolId = 90])
  \* a type literal with no identity at all that refers to itself: { self: Loop }
  @@ ("Loop"      :> Object(0, "__type", <<Prop("self", "Loop")>>))
  \* { inner: { v: string } }, neither with an identity
  @@ ("Outer"     :> Object(0, "__type", <<Prop("inner", "Inner")>>))
  @@ ("Inner"     :> Object(0, "__type", <<Prop("v", "string")>>))

Handles == DOMAIN TypeGraph


(***************************************************************************)
(* State.                                                                  *)
(***************************************************************************)
VARIABLES
  typeDefinitions,  \* collectTypeDefinitions' Map, in insertion order
  functions,        \* the exported functions carrying the marker, in scan order
  processedTypes,   \* generateActionsJson's processedTypes
  typeRegistry,     \* generateActionsJson's typeRegistry, in insertion order
  actions,          \* generateActionsJson's actions
  parameters,       \* the parameters object of the function being visited
  document,         \* the written actions.json (NoDocument before the write)
  pc,               \* where the caller of serializeType is
  defIdx,           \* position of the for-of loop over typeDefinitions
  fnIdx,            \* position of the scan over the functions
  paramIdx,         \* position of node.parameters.forEach
  stack,            \* the active serializeType calls, the root first
  result,           \* what the last root call returned (NoValue: none pending)
  run,              \* which run of the tool this is
  firstDocument,    \* the document the first run wrote
  inputs,           \* the arguments of the calls applied by SpecFn
  call,             \* which of them is being applied
  first             \* what the first of them returned

vars == <<typeDefinitions, functions, processedTypes, typeRegistry, actions,
          parameters, document, pc, defIdx, fnIdx, paramIdx, stack, result,
          run, firstDocument, inputs, call, first>>

callerVars == <<typeDefinitions, functions, typeRegistry, actions, parameters,
                document, pc, defIdx, fnIdx, paramIdx, result, run,
                firstDocument, inputs, call, first>>

(***************************************************************************)
(* serializeType: the tests it makes on a handle.                          *)
(***************************************************************************)
isBuiltInType(typeName) ==
  typeName \in {"Array", "String", "Number", "Boolean", "Object", "Function",
                "Promise", "Date", "RegExp", "Error", "Map", "Set", "Symbol",
                "Iterator", "Generator"}
  \/ typeName = "__type"

\* propName.startsWith('__'), over the property names of the type graph
StartsWithUnderscores(propName) == propName \in {"__brand"}

isLikelyMethod(prop) ==
  IF ~prop.valueDeclaration THEN FALSE ELSE prop.callSignatures

\* Math.random().toString(36).substring(7): a string, so never equal to a
\* numeric id; modelled as a negative integer.  The code only ever compares
\* it with the members of `visited`, so the outcomes are: one of the tokens
\* already in `visited`, or a token that is not (one representative).
RandomToken(visited) ==
  {v \in visited : v < 0} \cup {-(Cardinality({v \in visited : v < 0}) + 1)}

\* type.id || (type.symbol && type.symbol.id) || Math.random()... : the set of
\* values typeId can take
TypeId(type, visited) ==
  LET t == TypeGraph[type] IN
  IF t.id # 0 THEN {t.id}
  ELSE IF t.symbolName # "" /\ t.symbolId # 0 THEN {t.symbolId}
  ELSE RandomToken(visited)

\* a cycle guard that never finds the identity
InVisitedNever(typeId, visited) == FALSE

\* visited.has(typeId)
InVisited(typeId, visited) == typeId \in visited

\* new Set(): the path so far is dropped
CopyVisitedEmpty(visited) == {}

\* new Set(visited): the set a recursive call receives
CopyVisited(visited) == visited

PrimitiveFlags == {"String", "Number", "Boolean", "Null", "Undefined", "Any", "Unknown"}

IsPrimitive(type) == TypeGraph[type].flags \cap PrimitiveFlags # {}

PrimitiveTag(type) ==
  LET f == TypeGraph[type].flags IN
  IF "String" \in f THEN "string"
  ELSE IF "Number" \in f THEN "number"
  ELSE IF "Boolean" \in f THEN "boolean"
  ELSE IF "Null" \in f THEN "null"
  ELSE IF "Undefined" \in f THEN "undefined"
  ELSE "any"

\* the literal block returns (it falls through when isLiteral() is false, and
\* for a literal that is neither string, number nor boolean)
LiteralReturns(type) ==
  LET t == TypeGraph[type] IN
  /\ t.isLiteral
  /\ t.isStringLiteral \/ t.isNumberLiteral \/ "BooleanLiteral" \in t.flags

LiteralValue(type) ==
  LET t == TypeGraph[type] IN
  IF t.isStringLiteral \/ t.isNumberLiteral THEN t.value
  ELSE Bool(t.intrinsicName = "true")

\* Array.from(typeDefinitions.values()).find(t => t.name === typeName && ...):
\* the index of the entry found, 0 when there is none
FindTypeInfo(defs, typeName) ==
  LET hits == {i \in 1..Len(defs) : defs[i].name = typeName /\ ~isBuiltInType(typeName)} IN
  IF hits = {} THEN 0 ELSE CHOOSE i \in hits : \A j \in hits : i <= j

\* type.symbol && type.symbol.name && !isBuiltInType(...) && typeInfo &&
\* !processedTypes.has(typeName)
NamedMatch(type, defs, processed) ==
  LET name == TypeGraph[type].symbolName IN
  /\ name # ""
  /\ ~isBuiltInType(name)
  /\ FindTypeInfo(defs, name) # 0
  /\ name \notin processed

IsAllStringLiterals(types) ==
  \A i \in 1..Len(types) : TypeGraph[types[i]].isStringLiteral

IsBooleanUnion(types) ==
  Len(types) = 2 /\ \A i \in 1..Len(types) : "BooleanLiteral" \in TypeGraph[types[i]].flags

\* type.types[0]: the first member, whatever it is
FirstMember(types) == IF types = <<>> THEN NoType ELSE types[1]

\* type.types.find(t => !(t.flags & Undefined) && !(t.flags & Null)): the
\* member found, NoType when there is none
NonUndefinedType(types) ==
  LET hits == {i \in 1..Len(types) :
                 TypeGraph[types[i]].flags \cap {"Undefined", "Null"} = {}} IN
  IF hits = {} THEN NoType ELSE types[CHOOSE i \in hits : \A j \in hits : i <= j]

\* typeChecker.getTypeArguments(type)[0]
ElementType(type) ==
  LET args == TypeGraph[type].typeArguments IN
  IF args = <<>> THEN NoType ELSE args[1]


(***************************************************************************)
(* serializeType: the call stack.  A frame is one active call: its `type`  *)
(* and `visited` arguments, its typeId (0 before line 224 has run), where  *)
(* it is (pc), and the locals of its property loop (the handle whose       *)
(* properties it enumerates, the loop index, the object built so far).     *)
(***************************************************************************)
NewFrame(type, visited) ==
  [type |-> type, typeId |-> 0, visited |-> visited, pc |-> "enter",
   owner |-> type, i |-> 0, acc |-> <<>>, val |-> NoValue]

Running == stack # <<>>

top == stack[Len(stack)]

SetTop(frame) == [stack EXCEPT ![Len(stack)] = frame]

\* `return v` in the frame: the value waits for Return to hand it over
Returning(frame, v) == [frame EXCEPT !.pc = "return", !.val = v]

\* the frame enters a property loop over owner's properties
Looping(frame, owner) == [frame EXCEPT !.pc = "properties", !.owner = owner, !.i = 1, !.acc = <<>>]

\* the frame calls serializeType(type, ..., new Set(visited)) and waits
Recurse(frame, waiting, type) ==
  Append(SetTop([frame EXCEPT !.pc = waiting]), NewFrame(type, CopyVisited(frame.visited)))

\* line 289 is reached: no earlier rule returned
AtUnionTest(frame) ==
  \/ frame.pc = "structural"
  \/ /\ frame.pc = "classify"
     /\ ~IsPrimitive(frame.type)
     /\ ~LiteralReturns(frame.type)
     /\ ~NamedMatch(frame.type, typeDefinitions, processedTypes)

\* line 337: the generic-object rule applies
HasProperties(type) ==
  TypeGraph[type].hasGetProperties /\ Len(TypeGraph[type].properties) > 0

\* line 222
NullHandle ==
  /\ Running /\ top.pc = "enter" /\ top.type = NoType
  /\ stack' = SetTop(Returning(top, Str("any")))
  /\ UNCHANGED <<processedTypes, callerVars>>

\* lines 224-229
CycleGuard ==
  /\ Running /\ top.pc = "enter" /\ top.type # NoType
  /\ \E typeId \in TypeId(top.type, top.visited) :
       stack' = SetTop(
         IF InVisited(typeId, top.visited)
         THEN [Returning(top, Str("any")) EXCEPT !.typeId = typeId]
         ELSE [top EXCEPT !.typeId = typeId, !.visited = @ \cup {typeId}, !.pc = "classify"])
  /\ UNCHANGED <<processedTypes, callerVars>>

\* lines 231-236
Primitive ==
  /\ Running /\ top.pc = "classify" /\ IsPrimitive(top.type)
  /\ stack' = SetTop(Returning(top, Str(PrimitiveTag(top.type))))
  /\ UNCHANGED <<processedTypes, callerVars>>

\* lines 238-244
Literal ==
  /\ Running /\ top.pc = "classify" /\ ~IsPrimitive(top.type)
  /\ LiteralReturns(top.type)
  /\ stack' = SetTop(Returning(top, LiteralValue(top.type)))
  /\ UNCHANGED <<processedTypes, callerVars>>

\* lines 246-258: the named-type rule marks the name processed and starts the
\* loop over typeInfo.type's properties (or falls through when typeInfo.type
\* has no getProperties)
NamedType ==
  /\ Running /\ top.pc = "classify" /\ ~IsPrimitive(top.type)
  /\ ~LiteralReturns(top.type)
  /\ NamedMatch(top.type, typeDefinitions, processedTypes)
  /\ LET typeName == TypeGraph[top.type].symbolName
         typeInfo == typeDefinitions[FindTypeInfo(typeDefinitions, typeName)]
     IN /\ processedTypes' = processedTypes \cup {typeName}
        /\ stack' = SetTop(IF TypeGraph[typeInfo.type].hasGetProperties
                           THEN Looping(top, typeInfo.type)
                           ELSE [top EXCEPT !.pc = "structural"])
  /\ UNCHANGED callerVars

\* lines 289-303 and 313: a union that returns without recursing
UnionReturn ==
  /\ Running /\ AtUnionTest(top) /\ TypeGraph[top.type].isUnion
  /\ LET types == TypeGraph[top.type].types IN
     /\ IsAllStringLiterals(types) \/ IsBooleanUnion(types) \/ NonUndefinedType(types) = NoType
     /\ stack' = SetTop(Returning(top,
          IF IsAllStringLiterals(types)
          THEN List([i \in 1..Len(types) |-> TypeGraph[types[i]].value.s])
          ELSE IF IsBooleanUnion(types) THEN Str("boolean")
          ELSE Str("any")))
  /\ UNCHANGED <<processedTypes, callerVars>>

\* lines 305-311: a union recurses into its first member that is neither
\* undefined nor null
UnionRecurse ==
  /\ Running /\ AtUnionTest(top) /\ TypeGraph[top.type].isUnion
  /\ Len(stack) < MaxDepth
  /\ LET types == TypeGraph[top.type].types IN
     /\ ~IsAllStringLiterals(types) /\ ~IsBooleanUnion(types)
     /\ NonUndefinedType(types) # NoType
     /\ stack' = Recurse(top, "union", NonUndefinedType(types))
  /\ UNCHANGED <<processedTypes, callerVars>>

\* lines 316-335: an array recurses into its element type; when the type
\* arguments cannot be read the catch returns items: 'any'
ArrayType ==
  /\ Running /\ AtUnionTest(top) /\ ~TypeGraph[top.type].isUnion
  /\ TypeGraph[top.type].isArrayType
  /\ IF TypeGraph[top.type].argumentsThrow
     THEN stack' = SetTop(Returning(top, ArrayOf(Str("any"))))
     ELSE /\ Len(stack) < MaxDepth
          /\ stack' = Recurse(top, "array", ElementType(top.type))
  /\ UNCHANGED <<processedTypes, callerVars>>

\* lines 337-341: the generic-object rule starts the loop over the type's own
\* properties
ObjectType ==
  /\ Running /\ AtUnionTest(top) /\ ~TypeGraph[top.type].isUnion
  /\ ~TypeGraph[top.type].isArrayType
  /\ HasProperties(top.type)
  /\ stack' = SetTop(Looping(top, top.type))
  /\ UNCHANGED <<processedTypes, callerVars>>

\* line 371
Fallback ==
  /\ Running /\ AtUnionTest(top) /\ ~TypeGraph[top.type].isUnion
  /\ ~TypeGraph[top.type].isArrayType
  /\ ~HasProperties(top.type)
  /\ stack' = SetTop(Returning(top, Str(TypeGraph[top.type].text)))
  /\ UNCHANGED <<processedTypes, callerVars>>

\* the property the loop of the frame is at
CurrentProperty(frame) == TypeGraph[frame.owner].properties[frame.i]

InLoop(frame) ==
  frame.pc = "properties" /\ frame.i <= Len(TypeGraph[frame.owner].properties)

Skipped(prop) == StartsWithUnderscores(prop.name) \/ isLikelyMethod(prop)

\* lines 264-266 and 347-349: `continue`
PropertySkip ==
  /\ Running /\ InLoop(top) /\ Skipped(CurrentProperty(top))
  /\ stack' = SetTop([top EXCEPT !.i = @ + 1])
  /\ UNCHANGED <<processedTypes, callerVars>>

\* lines 268-270 throw, lines 279-281 and 362-364 catch: the property is left
\* out and the loop goes on
PropertyCatch ==
  /\ Running /\ InLoop(top) /\ ~Skipped(CurrentProperty(top))
  /\ CurrentProperty(top).throws
  /\ stack' = SetTop([top EXCEPT !.i = @ + 1])
  /\ UNCHANGED <<processedTypes, callerVars>>

\* lines 268-278 and 351-361: the call for the property's type
PropertyRecurse ==
  /\ Running /\ InLoop(top) /\ ~Skipped(CurrentProperty(top))
  /\ ~CurrentProperty(top).throws
  /\ Len(stack) < MaxDepth
  /\ stack' = Recurse(top, "properties", CurrentProperty(top).type)
  /\ UNCHANGED <<processedTypes, callerVars>>

\* lines 284 and 367: the loop is over
PropertiesDone ==
  /\ Running /\ top.pc = "properties" /\ ~InLoop(top)
  /\ stack' = SetTop(Returning(top, Obj(top.acc)))
  /\ UNCHANGED <<processedTypes, callerVars>>

\* what the caller's frame does with the value a recursive call returned:
\* structure[propName] = v (lines 272, 355), return v (line 310),
\* return { type: 'array', items: v } (lines 327-330)
Resume(frame, v) ==
  IF frame.pc = "properties"
  THEN [frame EXCEPT !.acc = SetKey(@, CurrentProperty(frame).name, v), !.i = @ + 1]
  ELSE IF frame.pc = "union" THEN Returning(frame, v)
  ELSE Returning(frame, ArrayOf(v))

\* a recursive call returns to the call that made it
Return ==
  /\ Running /\ top.pc = "return" /\ Len(stack) > 1
  /\ stack' = Append(SubSeq(stack, 1, Len(stack) - 2),
                      Resume(stack[Len(stack) - 1], top.val))
  /\ UNCHANGED <<processedTypes, callerVars>>

\* a root call returns to generateActionsJson
ReturnToCaller ==
  /\ Running /\ top.pc = "return" /\ Len(stack) = 1
  /\ stack' = <<>>
  /\ result' = top.val
  /\ UNCHANGED <<processedTypes, typeDefinitions, functions, typeRegistry, actions,
                 parameters, document, pc, defIdx, fnIdx, paramIdx, run,
                 firstDocument, inputs, call, first>>

serializeType ==
  \/ NullHandle \/ CycleGuard \/ Primitive \/ Literal \/ NamedType
  \/ UnionReturn \/ UnionRecurse \/ ArrayType \/ ObjectType \/ Fallback
  \/ PropertySkip \/ PropertyCatch \/ PropertyRecurse \/ PropertiesDone
  \/ Return \/ ReturnToCaller


(***************************************************************************)
(* Projects: what createProgram and collectTypeDefinitions hand to         *)
(* generateActionsJson.                                                    *)
(***************************************************************************)
\* a typeDefinitions entry (lines 73-79, 88-94)
Definition(name, type) == [name |-> name, type |-> type, file |-> "src/types.ts"]

\* a parameter with a declared type: its name, param.type.getText() and
\* typeChecker.getTypeAtLocation(param)
Parameter(name, typeName, type) ==
  [name |-> name, hasType |-> TRUE, typeName |-> typeName, type |-> type]

\* a parameter without a type annotation
Untyped(name, type) ==
  [name |-> name, hasType |-> FALSE, typeName |-> "", type |-> type]

\* an exported function whose leading comment holds @abra-action; comment is
\* the comment's text with the marker and the delimiters stripped and trimmed
\* (lines 158-165)
Function(name, comment, params) ==
  [name |-> name, comment |-> comment, module |-> "src/actions.ts", parameters |-> params]

Project(defs, fns) == [typeDefinitions |-> defs, functions |-> fns]

Projects ==
  { \* the record type of the spec's end-to-end example
    Project(<<Definition("Item", "Item")>>,
            <<Function("addItem", "Add an item", <<Parameter("item", "Item", "Item")>>)>>),
    \* the same, with an exported type that refers to Item declared before it
    Project(<<Definition("Holder", "Holder"), Definition("Item", "Item")>>,
            <<Function("addItem", "Add an item", <<Parameter("item", "Item", "Item")>>)>>),
    \* and declared after it
    Project(<<Definition("Item", "Item"), Definition("Holder", "Holder")>>,
            <<Function("store", "", <<Parameter("item", "Item", "Item"),
                                  Parameter("holder", "Holder", "Holder")>>)>>),
    Project(<<Definition("Node", "Node")>>,
            <<Function("walk", "Walk the list", <<Parameter("node", "Node", "Node"),
                                 Parameter("label", "string", "string"),
                                 Untyped("rest", "any")>>)>>),
    Project(<<Definition("A", "A"), Definition("B", "B")>>,
            <<Function("link", "", <<Parameter("a", "A", "A"), Parameter("b", "B", "B")>>)>>),
    Project(<<Definition("DiamondE", "DiamondE"), Definition("Empty", "Empty")>>,
            <<Function("pair", "", <<Parameter("d", "DiamondE", "DiamondE"),
                                 Parameter("e", "Empty", "Empty")>>)>>),
    Project(<<Definition("Flaky", "Flaky"), Definition("Tree", "Tree"),
              Definition("Mode", "'a'|'b'")>>,
            <<Function("grow", "Grow the tree", <<Parameter("tree", "Tree | undefined", "Tree?"),
                                 Parameter("mode", "Mode", "'a'|'b'")>>),
              Function("probe", "", <<Parameter("f", "Flaky", "Flaky"),
                                  Parameter("on", "boolean", "boolean"),
                                  Parameter("kind", "'a'", "'a'"),
                                  Parameter("yes", "true", "true"),
                                  Parameter("list", "[]", "[]"),
                                  Parameter("tags", "string[]", "string[]")>>)>>),
    \* parameters whose types expose no identity
    Project(<<>>,
            <<Function("nest", "", <<Parameter("o", "{ inner: { v: string } }", "Outer")>>)>>),
    Project(<<>>,
            <<Function("spin", "", <<Parameter("l", "Loop", "Loop")>>)>>) }

NoDocument == [written |-> FALSE, actions |-> <<>>, typeAliases |-> <<>>]

NoInputs == [types |-> <<>>, processedTypes |-> {}, visited |-> {}]

(***************************************************************************)
(* generateActionsJson.                                                    *)
(***************************************************************************)
\* lines 105-118 (and 394-395): the state a run starts in
Start(project) ==
  /\ typeDefinitions = project.typeDefinitions
  /\ functions = project.functions
  /\ processedTypes = {}
  /\ typeRegistry = <<>>
  /\ actions = <<>>
  /\ parameters = <<>>
  /\ document = NoDocument
  /\ pc = "registry"
  /\ defIdx = 1
  /\ fnIdx = 1
  /\ paramIdx = 1
  /\ stack = <<>>
  /\ result = NoValue

Init ==
  /\ \E project \in Projects : Start(project)
  /\ run = 1
  /\ firstDocument = NoDocument
  /\ inputs = NoInputs
  /\ call = 0
  /\ first = NoValue

\* line 121, the test fails: the name is already in processedTypes
RegistrySkip ==
  /\ pc = "registry" /\ defIdx <= Len(typeDefinitions)
  /\ typeDefinitions[defIdx].name \in processedTypes
  /\ defIdx' = defIdx + 1
  /\ UNCHANGED <<typeDefinitions, functions, processedTypes, typeRegistry, actions,
                 parameters, document, pc, fnIdx, paramIdx, stack, result, run,
                 firstDocument, inputs, call, first>>

\* lines 121-128
RegistryCall ==
  /\ pc = "registry" /\ defIdx <= Len(typeDefinitions)
  /\ typeDefinitions[defIdx].name \notin processedTypes
  /\ stack' = <<NewFrame(typeDefinitions[defIdx].type, {})>>
  /\ pc' = "registryCall"
  /\ UNCHANGED <<typeDefinitions, functions, processedTypes, typeRegistry, actions,
                 parameters, document, defIdx, fnIdx, paramIdx, result, run,
                 firstDocument, inputs, call, first>>

\* lines 130-133
RegistryStore ==
  /\ pc = "registryCall" /\ stack = <<>>
  /\ typeRegistry' = SetKey(typeRegistry, typeDefinitions[defIdx].name,
                            [structure |-> result, file |-> typeDefinitions[defIdx].file])
  /\ defIdx' = defIdx + 1
  /\ pc' = "registry"
  /\ UNCHANGED <<typeDefinitions, functions, processedTypes, actions, parameters,
                 document, fnIdx, paramIdx, stack, result, run, firstDocument,
                 inputs, call, first>>

\* lines 135-138: the registry pass is over
RegistryDone ==
  /\ pc = "registry" /\ defIdx > Len(typeDefinitions)
  /\ pc' = "functions"
  /\ UNCHANGED <<typeDefinitions, functions, processedTypes, typeRegistry, actions,
                 parameters, document, defIdx, fnIdx, paramIdx, stack, result, run,
                 firstDocument, inputs, call, first>>

AtParameter ==
  /\ pc = "functions" /\ fnIdx <= Len(functions)
  /\ paramIdx <= Len(functions[fnIdx].parameters)

CurrentParameter == functions[fnIdx].parameters[paramIdx]

\* lines 173-178: the declared type's text names a registry entry
ParameterReuse ==
  /\ AtParameter
  /\ CurrentParameter.hasType /\ HasKey(typeRegistry, CurrentParameter.typeName)
  /\ parameters' = SetKey(parameters, CurrentParameter.name,
                          Lookup(typeRegistry, CurrentParameter.typeName).structure)
  /\ paramIdx' = paramIdx + 1
  /\ UNCHANGED <<typeDefinitions, functions, processedTypes, typeRegistry, actions,
                 document, pc, defIdx, fnIdx, stack, result, run, firstDocument,
                 inputs, call, first>>

\* lines 179-186 and 188-196
ParameterCall ==
  /\ AtParameter
  /\ ~(CurrentParameter.hasType /\ HasKey(typeRegistry, CurrentParameter.typeName))
  /\ stack' = <<NewFrame(CurrentParameter.type, {})>>
  /\ pc' = "parameterCall"
  /\ UNCHANGED <<typeDefinitions, functions, processedTypes, typeRegistry, actions,
                 parameters, document, defIdx, fnIdx, paramIdx, result, run,
                 firstDocument, inputs, call, first>>

\* lines 180 and 190: parameters[paramName] = the value returned
ParameterStore ==
  /\ pc = "parameterCall" /\ stack = <<>>
  /\ parameters' = SetKey(parameters, CurrentParameter.name, result)
  /\ paramIdx' = paramIdx + 1
  /\ pc' = "functions"
  /\ UNCHANGED <<typeDefinitions, functions, processedTypes, typeRegistry, actions,
                 document, defIdx, fnIdx, stack, result, run, firstDocument,
                 inputs, call, first>>

\* lines 201-206
ActionPush ==
  /\ pc = "functions" /\ fnIdx <= Len(functions)
  /\ paramIdx > Len(functions[fnIdx].parameters)
  /\ actions' = Append(actions, [name |-> functions[fnIdx].name,
                                 description |-> IF functions[fnIdx].comment # ""
                                                 THEN functions[fnIdx].comment
                                                 ELSE "Execute " \o functions[fnIdx].name,
                                 parameters |-> parameters,
                                 module |-> functions[fnIdx].module])
  /\ parameters' = <<>>
  /\ fnIdx' = fnIdx + 1
  /\ paramIdx' = 1
  /\ UNCHANGED <<typeDefinitions, functions, processedTypes, typeRegistry, document,
                 pc, defIdx, stack, result, run, firstDocument, inputs, call, first>>

\* lines 215-218
WriteDocument ==
  /\ pc = "functions" /\ fnIdx > Len(functions)
  /\ document' = [written |-> TRUE, actions |-> actions, typeAliases |-> typeRegistry]
  /\ pc' = "done"
  /\ UNCHANGED <<typeDefinitions, functions, processedTypes, typeRegistry, actions,
                 parameters, defIdx, fnIdx, paramIdx, stack, result, run,
                 firstDocument, inputs, call, first>>

\* lines 394-395, once more on the unchanged project
Rerun ==
  /\ pc = "done" /\ run < MaxRuns
  /\ run' = run + 1
  /\ firstDocument' = IF run = 1 THEN document ELSE firstDocument
  /\ processedTypes' = {}
  /\ typeRegistry' = <<>>
  /\ actions' = <<>>
  /\ parameters' = <<>>
  /\ document' = NoDocument
  /\ pc' = "registry"
  /\ defIdx' = 1
  /\ fnIdx' = 1
  /\ paramIdx' = 1
  /\ result' = NoValue
  /\ UNCHANGED <<typeDefinitions, functions, stack, inputs, call, first>>

generateActionsJson ==
  \/ RegistrySkip \/ RegistryCall \/ RegistryStore \/ RegistryDone
  \/ ParameterReuse \/ ParameterCall \/ ParameterStore \/ ActionPush
  \/ WriteDocument

Next == generateActionsJson \/ serializeType \/ Rerun

Spec == Init /\ [][Next]_vars


(***************************************************************************)
(* serializeType applied as a function: two calls, each from the same      *)
(* processedTypes and with the same visited set, the first call's value    *)
(* kept for comparison with the second's.                                  *)
(***************************************************************************)
\* every exported interface of the type graph
AllDefinitions ==
  <<Definition("Node", "Node"), Definition("A", "A"), Definition("B", "B"),
    Definition("Empty", "Empty"), Definition("Item", "Item"),
    Definition("Diamond", "Diamond"), Definition("DiamondE", "DiamondE"),
    Definition("Holder", "Holder"), Definition("Tree", "Tree"),
    Definition("Flaky", "Flaky"), Definition("FlakyRef", "FlakyRef"),
    Definition("FlakyE", "FlakyE"), Definition("Cell", "Cell"),
    Definition("X", "X"), Definition("Y", "Y"), Definition("Z", "Z")>>

\* the handles a call on `type` can recurse into directly
Children(type) ==
  LET t == TypeGraph[type] IN
  ({t.properties[i].type : i \in 1..Len(t.properties)}
     \cup {t.types[i] : i \in 1..Len(t.types)}
     \cup {t.typeArguments[i] : i \in 1..Len(t.typeArguments)}) \ {NoType}

RECURSIVE Closure(_)
Closure(types) ==
  LET more == types \cup UNION {Children(t) : t \in types} IN
  IF more = types THEN types ELSE Closure(more)

\* the handles reachable from `type`, itself included
Reachable[type \in Handles \cup {NoType}] ==
  IF type = NoType THEN {} ELSE Closure({type})

\* T | undefined, for a T that is not a union
OptionalUnions ==
  {u \in Handles : /\ TypeGraph[u].isUnion
                   /\ Len(TypeGraph[u].types) = 2
                   /\ \E i \in 1..2 : "Undefined" \in TypeGraph[TypeGraph[u].types[i]].flags
                   /\ \E i \in 1..2 : /\ "Undefined" \notin TypeGraph[TypeGraph[u].types[i]].flags
                                      /\ ~TypeGraph[TypeGraph[u].types[i]].isUnion}

\* the T of T | undefined
MemberOf(u) ==
  LET types == TypeGraph[u].types IN
  IF "Undefined" \in TypeGraph[types[1]].flags THEN types[2] ELSE types[1]

\* an object type whose property fails to resolve, and the same type with the
\* property resolving
Repaired == {<<"Flaky", "FlakyRef">>, <<"FlakyE", "DiamondE">>}

CallPairs ==
  {<<h, h>> : h \in Handles \cup {NoType}}
    \cup {<<u, MemberOf(u)>> : u \in OptionalUnions}
    \cup Repaired

NamesOf(types) ==
  {TypeGraph[t].symbolName : t \in types} \cap {AllDefinitions[i].name : i \in 1..Len(AllDefinitions)}

IdsOf(types) == {TypeGraph[t].id : t \in types} \ {0}

\* the arguments of the calls applied: a pair of handles, the processedTypes
\* and the visited set both calls start from (names and ids of handles the
\* calls can reach: the others change nothing)
FnInputs ==
  UNION {
    LET reach == Reachable[pair[1]] \cup Reachable[pair[2]] IN
    {[types |-> pair, processedTypes |-> processed, visited |-> visited] :
       processed \in SUBSET NamesOf(reach),
       visited \in {{}} \cup {{id} : id \in IdsOf(reach)}}
    : pair \in CallPairs}

InitFn ==
  /\ typeDefinitions = AllDefinitions
  /\ functions = <<>>
  /\ inputs \in FnInputs
  /\ processedTypes = inputs.processedTypes
  /\ typeRegistry = <<>>
  /\ actions = <<>>
  /\ parameters = <<>>
  /\ document = NoDocument
  /\ pc = "apply"
  /\ defIdx = 1
  /\ fnIdx = 1
  /\ paramIdx = 1
  /\ stack = <<>>
  /\ result = NoValue
  /\ run = 1
  /\ firstDocument = NoDocument
  /\ call = 1
  /\ first = NoValue

\* line 221: serializeType(type, typeChecker, typeDefinitions, processedTypes, visited)
Apply ==
  /\ pc = "apply"
  /\ processedTypes' = inputs.processedTypes
  /\ stack' = <<NewFrame(inputs.types[call], inputs.visited)>>
  /\ pc' = "applied"
  /\ UNCHANGED <<typeDefinitions, functions, typeRegistry, actions, parameters,
                 document, defIdx, fnIdx, paramIdx, result, run, firstDocument,
                 inputs, call, first>>

\* the first call has returned: its value is kept
KeepFirst ==
  /\ pc = "applied" /\ stack = <<>> /\ call = 1
  /\ first' = result
  /\ call' = 2
  /\ pc' = "apply"
  /\ UNCHANGED <<typeDefinitions, functions, processedTypes, typeRegistry, actions,
                 parameters, document, defIdx, fnIdx, paramIdx, stack, result, run,
                 firstDocument, inputs>>

\* the second call has returned
Finish ==
  /\ pc = "applied" /\ stack = <<>> /\ call = 2
  /\ pc' = "compared"
  /\ UNCHANGED <<typeDefinitions, functions, processedTypes, typeRegistry, actions,
                 parameters, document, defIdx, fnIdx, paramIdx, stack, result, run,
                 firstDocument, inputs, call, first>>

NextFn == Apply \/ KeepFirst \/ Finish \/ serializeType

SpecFn == InitFn /\ [][NextFn]_vars


(***************************************************************************)
(* The properties checked.                                                 *)
(***************************************************************************)
Field(name, v) == [name |-> name, val |-> v]

\* { id: "number", tags: { type: "array", items: "string" } }
ItemSchema == Obj(<<Field("id", Str("number")), Field("tags", ArrayOf(Str("string")))>>)

\* a root call applied by SpecFn has just returned `result`
Returned == pc = "applied" /\ stack = <<>>

\* the handle of the call SpecFn is applying, or has just applied
Applied == inputs.types[call]

\* ---- C1 ----
\* the types on a cycle through named types, each with a stable identity,
\* the length of the cycle, and what a call on one with an empty visited set
\* must return: the object whose property closing the cycle is "any"
CycleLength ==
  ("Node" :> 1) @@ ("Cell" :> 1) @@ ("A" :> 2) @@ ("B" :> 2) @@ ("X" :> 3)

CycleSchema ==
     ("Node" :> Obj(<<Field("next", Str("any"))>>))
  @@ ("Cell" :> Obj(<<Field("self", Str("any"))>>))
  @@ ("A" :> Obj(<<Field("b", Obj(<<Field("a", Str("any"))>>))>>))
  @@ ("B" :> Obj(<<Field("a", Obj(<<Field("b", Str("any"))>>))>>))
  @@ ("X" :> Obj(<<Field("y", Obj(<<Field("z", Obj(<<Field("x", Str("any"))>>))>>))>>))

\* C1: serializeType on a self-referential named type N with an empty visited
\* set terminates (its recursion never goes deeper than the cycle plus the
\* call the guard stops) and returns the object whose property closing the
\* cycle is "any", whether N is in processedTypes or not; likewise for a
\* longer cycle through named types.
CycleClosesWithAny ==
  (pc \in {"apply", "applied"} /\ inputs.visited = {} /\ Applied \in DOMAIN CycleSchema) =>
    /\ Len(stack) <= CycleLength[Applied] + 1
    /\ Returned => result = CycleSchema[Applied]

\* C1 witness: Node already in processedTypes (the generic-object rule), the
\* call has returned { next: "any" }
CycleClosedOnProcessedNode ==
  /\ Returned /\ Applied = "Node" /\ inputs.visited = {}
  /\ "Node" \in inputs.processedTypes
  /\ result = Obj(<<Field("next", Str("any"))>>)

\* ---- C2 ----
\* the full expansion of the type both siblings refer to
DiamondSchema == ("Diamond" :> ItemSchema) @@ ("DiamondE" :> Obj(<<>>))

\* C2: in a diamond (properties a and b of one object type both of the named
\* type T, no cycle) a and b get the same schema, T's full expansion: the
\* second is not degraded because the first marked T processed.
DiamondSiblingsExpandAlike ==
  (Returned /\ inputs.visited = {} /\ Applied \in DOMAIN DiamondSchema) =>
    /\ result.kind = "object"
    /\ HasKey(result.fields, "a") /\ HasKey(result.fields, "b")
    /\ Lookup(result.fields, "a") = Lookup(result.fields, "b")
    /\ Lookup(result.fields, "a") = DiamondSchema[Applied]

\* ---- C3 ----
\* the exported record types and their expanded object schemas
RecordSchema ==
  ("Item" :> ItemSchema) @@ ("Holder" :> Obj(<<Field("item", ItemSchema)>>))

\* C3: once the document is written, every exported record type R that is the
\* declared type of an action's parameter has its expanded schema both as
\* the parameter's schema and as typeAliases[R].structure.
RecordParameterInSchemaAndRegistry ==
  pc = "done" =>
    \A f \in 1..Len(functions) : \A p \in 1..Len(functions[f].parameters) :
      LET param == functions[f].parameters[p] IN
      (param.hasType /\ param.typeName \in DOMAIN RecordSchema
         /\ FindTypeInfo(typeDefinitions, param.typeName) # 0) =>
        /\ HasKey(document.actions[f].parameters, param.name)
        /\ Lookup(document.actions[f].parameters, param.name) = RecordSchema[param.typeName]
        /\ HasKey(document.typeAliases, param.typeName)
        /\ Lookup(document.typeAliases, param.typeName).structure = RecordSchema[param.typeName]

\* ---- C4 ----
\* C4: serializeType terminates on every handle of a finite type graph: the
\* recursion is never deeper than the number of handles the root can reach,
\* plus the one call the cycle guard stops.
RecursionBoundedByGraph ==
  Running => Len(stack) <= Cardinality(Reachable[stack[1].type]) + 1

\* ---- C5 ----
\* a call pair U = T | undefined and T, from a visited set holding neither
OptionalPair ==
  /\ inputs.types[1] \in OptionalUnions
  /\ inputs.types[2] = MemberOf(inputs.types[1])
  /\ inputs.types[1] # inputs.types[2]
  /\ inputs.visited \cap IdsOf({inputs.types[1], inputs.types[2]}) = {}

\* every handle the call can reach exposes a type id or a symbol id
StableIdentity(type) ==
  \A t \in Reachable[type] :
    TypeGraph[t].id # 0 \/ (TypeGraph[t].symbolName # "" /\ TypeGraph[t].symbolId # 0)

\* C5 as stated: for U = T | undefined with T any non-union type,
\* serializeType(U) = serializeType(T) from the same processedTypes and the
\* same visited set.
OptionalSerializesAsMember ==
  (pc = "compared" /\ OptionalPair) => first = result

\* C5 as amended: the same for T other than null (and undefined), when U, T
\* and the handles T reaches expose a stable identity.
OptionalSerializesAsNonNullMember ==
  (pc = "compared" /\ OptionalPair
     /\ TypeGraph[inputs.types[2]].flags \cap {"Null", "Undefined"} = {}
     /\ StableIdentity(inputs.types[1])) => first = result

\* C5 witness: Item | undefined and Item, Item not yet processed, both
\* returned Item's expansion
OptionalItemSerialized ==
  /\ pc = "compared" /\ OptionalPair /\ inputs.types = <<"Item?", "Item">>
  /\ inputs.processedTypes = {} /\ inputs.visited = {}
  /\ first = ItemSchema /\ result = ItemSchema

\* ---- C6 ----
\* the properties of `type` whose resolution throws
Failing(type) ==
  {TypeGraph[type].properties[i].name : i \in
     {j \in 1..Len(TypeGraph[type].properties) :
        /\ TypeGraph[type].properties[j].throws
        /\ ~Skipped(TypeGraph[type].properties[j])}}

\* the fields whose names are not in `names`, in order
Without(fields, names) ==
  LET keep == {i \in 1..Len(fields) : fields[i].name \notin names}
      nth(k) == CHOOSE i \in keep : Cardinality({j \in keep : j <= i}) = k
  IN [k \in 1..Cardinality(keep) |-> fields[nth(k)]]

\* C6: when resolving one property of an object type throws, the object
\* returned omits exactly that property and holds every other surviving
\* property with the schema it has without the failure (the second call is
\* on the same type with the property resolving; neither type is on the
\* path already).
FailedPropertyAloneIsOmitted ==
  (pc = "compared" /\ inputs.types \in Repaired
     /\ inputs.visited \cap IdsOf({inputs.types[1], inputs.types[2]}) = {}) =>
    /\ first.kind = "object"
    /\ first = Obj(Without(result.fields, Failing(inputs.types[1])))

\* ---- C7 ----
\* C7: a second run on the unchanged project writes the same document as the
\* first, whatever the random identity tokens were.
RerunWritesSameDocument ==
  (run > 1 /\ pc = "done") => document = firstDocument

\* ---- C8 ----
\* the string, number and boolean literal handles and their raw values
LiteralRawValue ==
     ("'a'" :> Str("a")) @@ ("'b'" :> Str("b")) @@ ("42" :> Num(42))
  @@ ("true" :> Bool(TRUE)) @@ ("false" :> Bool(FALSE))
  @@ ("true*" :> Bool(TRUE)) @@ ("false*" :> Bool(FALSE))

\* C8: for a string, number or boolean literal handle whose identity is not
\* in the visited set, serializeType returns the literal's raw value, whether
\* or not the host's isLiteral() reports a boolean literal as a literal.
LiteralsSerializeToRawValue ==
  (Returned /\ Applied \in DOMAIN LiteralRawValue
            /\ TypeGraph[Applied].id \notin inputs.visited) =>
    result = LiteralRawValue[Applied]

\* ---- C9 ----
\* C9: in every call past the cycle guard, the visited set is exactly the
\* identities of the calls from the root call to this one; as this holds of
\* every frame of the stack at every step, no recursive call changes the set
\* of a caller and no sibling or completed call leaves its identity behind.
VisitedIsCurrentPath ==
  \A i \in 1..Len(stack) :
    stack[i].typeId # 0 => stack[i].visited = {stack[j].typeId : j \in 1..i}

\* C9 witness: Item's second property (tags) is being serialized after its
\* first (id: number) has completed; the call for tags is past the guard and
\* number's identity is not in its visited set
SiblingLeftNoTrace ==
  /\ Len(stack) >= 2
  /\ stack[Len(stack) - 1].type = "Item" /\ stack[Len(stack) - 1].i = 2
  /\ HasKey(stack[Len(stack) - 1].acc, "id")
  /\ top.type = "string[]" /\ top.typeId # 0
  /\ TypeGraph["number"].id \notin top.visited

\* ---- C10 ----
\* C10: once the registry pass is over, every name in processedTypes has an
\* entry in typeRegistry.
ProcessedTypesAreRegistered ==
  pc \in {"functions", "parameterCall", "done"} =>
    \A name \in processedTypes : HasKey(typeRegistry, name)

====
